---------------------------- MODULE Spec2Model ----------------------------
(***************************************************************************)
(* A model of pillar.js, a synchronous dependency resolver.                *)
(*                                                                         *)
(* A Package holds named Modules.  Package.define registers a module,      *)
(* Package.needs / Package.run resolve modules: Package.load pushes the    *)
(* module's name on Package.loading, checks that array for duplicates,     *)
(* calls Module.load (which resolves the definition's parameter names      *)
(* through Package.needs and then calls the definition once), and removes  *)
(* the name again.  JavaScript runs all of this on one call stack; the     *)
(* model keeps that call stack explicitly in the variable "stack" and      *)
(* takes one step per call, return or throw.                               *)
(*                                                                         *)
(* JavaScript strings are sequences of one-character strings, so that      *)
(* String.split, the namespace shorthand and the name comparisons are      *)
(* computed as the code computes them.                                     *)
(***************************************************************************)
EXTENDS Integers, Sequences, FiniteSets, TLC

(***************************************************************************)
(* Sequence helpers                                                        *)
(***************************************************************************)
Front(s) == SubSeq(s, 1, Len(s) - 1)

Range(s) == { s[i] : i \in 1..Len(s) }

RECURSIVE Concat(_)
Concat(ss) == IF ss = <<>> THEN <<>> ELSE Head(ss) \o Concat(Tail(ss))

(***************************************************************************)
(* Utility functions of pillar.js                                          *)
(***************************************************************************)

\* first(arr): arr[0]; the caller below only applies it to a non-empty array.
first(arr) == arr[1]

\* last(arr): the last item, or the throw "Error: Object has no items."
\* (reported as ok = FALSE).
last(arr) ==
    IF Len(arr) > 0 THEN [ok |-> TRUE, v |-> arr[Len(arr)]]
                    ELSE [ok |-> FALSE, v |-> ""]

\* A removeFromArr that removes nothing.
removeFromArrKeeps(arr, val) == arr

\* removeFromArr(arr, val): removes the first item identical to val.
RECURSIVE removeFromArr(_, _)
removeFromArr(arr, val) ==
    IF arr = <<>> THEN <<>>
    ELSE IF Head(arr) = val THEN Tail(arr)
    ELSE <<Head(arr)>> \o removeFromArr(Tail(arr), val)

\* A merge in which a key of left keeps its value.
mergeKeepsLeft(left, right) ==
    [k \in (DOMAIN left) \cup (DOMAIN right) |->
        IF k \in DOMAIN left THEN left[k] ELSE right[k]]

\* merge(left, right): every own key of right overwrites left.
merge(left, right) ==
    [k \in (DOMAIN left) \cup (DOMAIN right) |->
        IF k \in DOMAIN right THEN right[k] ELSE left[k]]

\* getDuplicates(arr): for i < j with arr[i] === arr[j], pushes arr[i]; the
\* pushes happen in the order of the two nested loops (i outer, j inner).
RECURSIVE DupesInner(_, _, _)
DupesInner(arr, i, j) ==
    IF j > Len(arr) THEN <<>>
    ELSE (IF arr[i] = arr[j] THEN <<arr[i]>> ELSE <<>>) \o DupesInner(arr, i, j + 1)

RECURSIVE DupesOuter(_, _)
DupesOuter(arr, i) ==
    IF i > Len(arr) - 1 THEN <<>>
    ELSE DupesInner(arr, i, i + 1) \o DupesOuter(arr, i + 1)

getDuplicates(arr) == DupesOuter(arr, 1)

(***************************************************************************)
(* Plain objects used as dictionaries ("results" of Package.needs): own    *)
(* string keys are enumerated in insertion order, and assigning to an      *)
(* existing key keeps its position.  A dictionary is a sequence of         *)
(* <<key, value>> pairs.                                                   *)
(***************************************************************************)
DictKeys(d) == [i \in 1..Len(d) |-> d[i][1]]

DictHas(d, k) == \E i \in 1..Len(d) : d[i][1] = k

\* A DictPut that appends an entry even when the key is there.
DictPutAppends(d, k, v) == Append(d, <<k, v>>)

DictPut(d, k, v) ==
    IF DictHas(d, k)
    THEN [i \in 1..Len(d) |-> IF d[i][1] = k THEN <<k, v>> ELSE d[i]]
    ELSE Append(d, <<k, v>>)

\* A values that enumerates the keys last to first.
valuesReversed(d) == [i \in 1..Len(d) |-> d[Len(d) + 1 - i][2]]

\* values(obj): the values of the own keys, in enumeration order.
values(d) == [i \in 1..Len(d) |-> d[i][2]]

(***************************************************************************)
(* JavaScript strings                                                      *)
(***************************************************************************)
Whitespace == {" "}

\* str.split(/\s+/): the pieces between maximal runs of whitespace; a leading
\* or trailing run yields an empty first or last piece, "" yields [""].
RECURSIVE SplitRec(_, _, _, _)
SplitRec(s, acc, cur, inWs) ==
    IF s = <<>> THEN Append(acc, cur)
    ELSE IF Head(s) \in Whitespace
         THEN (IF inWs THEN SplitRec(Tail(s), acc, cur, TRUE)
                       ELSE SplitRec(Tail(s), Append(acc, cur), <<>>, TRUE))
         ELSE SplitRec(Tail(s), acc, Append(cur, Head(s)), FALSE)

Split(s) == SplitRec(s, <<>>, <<>>, FALSE)

\* namespace.replace(/:$/, '/')
ReplaceTrailingColon(s) ==
    IF Len(s) > 0 /\ s[Len(s)] = ":" THEN Front(s) \o <<"/">> ELSE s

\* str.toLowerCase(), for the letters of the ASCII alphabet.
UpperCase == <<"A", "B", "C", "D", "E", "F", "G", "H", "I", "J", "K", "L", "M",
               "N", "O", "P", "Q", "R", "S", "T", "U", "V", "W", "X", "Y", "Z">>
LowerCase == <<"a", "b", "c", "d", "e", "f", "g", "h", "i", "j", "k", "l", "m",
               "n", "o", "p", "q", "r", "s", "t", "u", "v", "w", "x", "y", "z">>

toLowerCase(s) ==
    [i \in 1..Len(s) |->
        IF \E j \in 1..Len(UpperCase) : UpperCase[j] = s[i]
        THEN LowerCase[CHOOSE j \in 1..Len(UpperCase) : UpperCase[j] = s[i]]
        ELSE s[i]]

(***************************************************************************)
(* Arguments of needs/run: a string or an array (of strings and arrays).   *)
(***************************************************************************)
Str(s) == [t |-> "str", s |-> s, a |-> <<>>]
Arr(a) == [t |-> "arr", s |-> <<>>, a |-> a]

\* parseNeeds on one value.  ok = FALSE is the throw of last("") for a string
\* whose first piece is empty.
RECURSIVE parseValue(_)
parseValue(v) ==
    IF v.t = "str"
    THEN LET split == Split(v.s)
             namespace == first(split)
             l == last(namespace)
         IN  IF ~l.ok THEN [ok |-> FALSE, names |-> <<>>]
             ELSE IF l.v = ":" /\ Len(split) > 1
                  THEN [ok |-> TRUE,
                        names |-> [i \in 1..(Len(split) - 1) |->
                                     ReplaceTrailingColon(namespace) \o split[i + 1]]]
                  ELSE [ok |-> TRUE, names |-> split]
    ELSE LET parts == [i \in 1..Len(v.a) |-> parseValue(v.a[i])]
         IN  IF \E i \in 1..Len(parts) : ~parts[i].ok
             THEN [ok |-> FALSE, names |-> <<>>]
             ELSE [ok |-> TRUE,
                   names |-> Concat([i \in 1..Len(parts) |-> parts[i].names])]

\* A parseNeeds that looks at its first argument only.
parseNeedsFirstOnly(args) == parseValue(args[1])

\* parseNeeds(arguments): several arguments are treated as one array.
parseNeeds(args) ==
    IF Len(args) > 1 THEN parseValue(Arr(args)) ELSE parseValue(args[1])

(***************************************************************************)
(* Names, values, definitions                                              *)
(*                                                                         *)
(* A name is a string, kept as the sequence of its characters.  The names  *)
(* registered here hold no whitespace: parseNeeds splits on whitespace, so *)
(* a name with a space in it can be defined but never resolved (the TODO   *)
(* of the header comment).                                                 *)
(***************************************************************************)
NA == <<"a">>
NB == <<"b">>
NC == <<"c">>
ND == <<"d">>
Main == <<"m", "a", "i", "n">>
NSA == <<"n", "/", "a">>
NSB == <<"n", "/", "b">>
NAb == <<"A", "b">>
NT == <<"t">>
NTX == <<"t", "/", "x">>
DotSlashX == <<".", "/", "x">>
Sp == <<" ">>

\* What a definition does when called: it makes the calls of "body" in order
\* (each possibly inside try/catch) and then returns a value or throws.
Return(v) == [k |-> "return", v |-> v]
Throw == [k |-> "throw", v |-> "thrown"]

Fn(params, body, out) == [params |-> params, body |-> body, out |-> out]

\* function(){}
NoopFn == Fn(<<>>, <<>>, Return("undefined"))

\* The second argument of define: a function, undefined (omitted), or a value
\* that is neither.
FnFunction(def) == [t |-> "function", def |-> def]
FnUndefined == [t |-> "undefined", def |-> NoopFn]
FnObject == [t |-> "object", def |-> NoopFn]

\* The first argument of define when it is not a string.
NotAString == [t |-> "number", s |-> <<>>, a |-> <<>>]

\* The options argument: an object with some of the keys set.
NoOptions == [k \in {} |-> TRUE]
LoadNow == [k \in {"loadNow"} |-> TRUE]
LoadLater == [k \in {"loadNow"} |-> FALSE]
LogOnLoad == [k \in {"logOnLoad"} |-> TRUE]
LoadLaterLogAfter == [loadNow |-> FALSE, logAfterLoad |-> TRUE]
LogBoth == [logOnLoad |-> TRUE, logAfterLoad |-> TRUE]

\* Calls made by a definition's body through this.needs / this.run /
\* this.package.define.
OpNeeds(args, caught) ==
    [op |-> "needs", args |-> args, name |-> NotAString, fn |-> FnUndefined,
     opts |-> NoOptions, caught |-> caught]
OpRun(args, caught) ==
    [op |-> "run", args |-> args, name |-> NotAString, fn |-> FnUndefined,
     opts |-> NoOptions, caught |-> caught]
OpDefine(name, fn, opts, caught) ==
    [op |-> "define", args |-> <<>>, name |-> name, fn |-> fn,
     opts |-> opts, caught |-> caught]

\* getFnParams(fn): the parameter names of the definition, in order.
getFnParams(def) == def.params

(***************************************************************************)
(* Errors.  The code throws strings; the model keeps which errorIf / error *)
(* call threw and the names its message is formatted with.  "hint" is the  *)
(* name in ' Did you mean [...]?', which only getModule appends.           *)
(***************************************************************************)
NoHint == [some |-> FALSE, name |-> <<>>]
Hint(name) == [some |-> TRUE, name |-> name]

Err(kind, names) == [kind |-> kind, names |-> names, hint |-> NoHint]
NoErr == Err("none", <<>>)

(***************************************************************************)
(* State                                                                   *)
(***************************************************************************)
VARIABLES
    modules,    \* Package.modules: name -> Module
    loading,    \* Package.loading
    stack,      \* the JavaScript call stack, outermost frame first
    invoked,    \* per module: the argument lists its definition was called with
    call,       \* the outermost call in progress, or the last one made
    ret,        \* what the last outermost call returned or threw
    ev,         \* what the last step did
    failed,     \* whether a needs, run or load has thrown so far
    defaults,   \* Package.defaultModuleOptions
    raised,     \* per module whose load an error has left: the last such error
    order,      \* the modules whose definitions the outermost call has called, in order
    console,    \* the messages written by log, in order
    app,        \* the application the environment runs
    arguments,  \* the arguments of a call of parseNeeds on its own
    parsed,     \* what that call returned or threw
    items,      \* the argument of a call of getDuplicates on its own
    duplicates  \* what that call returned

vars == <<modules, loading, stack, invoked, call, ret, ev, failed, defaults,
          raised, order, console, app, arguments, parsed, items, duplicates>>

\* new Module({...}): Module constructor.  opts.package.defaultOptions is
\* undefined, so this.options is a copy of opts.options.
Module(def, options) ==
    [definition |-> def, options |-> merge(merge(NoOptions, NoOptions), options),
     cache |-> "null", isCached |-> FALSE]

\* Package constructor: defaultModuleOptions
defaultModuleOptions ==
    [loadNow |-> FALSE, logOnLoad |-> FALSE, logAfterLoad |-> FALSE]

\* Package.exists
exists(mods, moduleName) == moduleName \in DOMAIN mods

\* Package.getModule for a name that is not registered: the error, with the
\* lower-cased requested name as the hint when some registered name equals
\* it once lower-cased.
getModuleError(mods, moduleName) ==
    LET lower == toLowerCase(moduleName)
    IN  [Err("NotFound", <<moduleName>>) EXCEPT
            !.hint = IF \E key \in DOMAIN mods : lower = toLowerCase(key)
                     THEN Hint(lower) ELSE NoHint]

\* An isCached that never sees the flag.
isCachedNever(m) == FALSE

\* Module.isCached / Module.getCache
isCached(m) == m.isCached
getCache(m) == m.cache

\* A cache that stores the value and leaves the flag.
cacheValueOnly(m, expr) == [m EXCEPT !.cache = expr]

\* Module.cache(expr)
cache(m, expr) == [m EXCEPT !.cache = expr, !.isCached = TRUE]

\* An addModule that registers nothing.
addModuleForgets(mods, moduleName, def, options, dflt) == mods

\* Package.addModule; dflt is this.defaultModuleOptions.
addModule(mods, moduleName, def, options, dflt) ==
    [n \in (DOMAIN mods) \cup {moduleName} |->
        IF n = moduleName
        THEN Module(def, merge(merge(NoOptions, dflt), options))
        ELSE mods[n]]

(***************************************************************************)
(* Call-stack frames                                                       *)
(***************************************************************************)
\* Package.needs / Package.run: "todo" are the parsed names not yet loaded
\* (the head is the one being loaded), "results" the dictionary built so far.
NeedsFrame(todo, raw, run) ==
    [f |-> "needs", name |-> <<>>, pc |-> "loop", todo |-> todo, results |-> <<>>,
     raw |-> raw, run |-> run, ops |-> <<>>, out |-> Return("undefined")]

\* Package.load + Module.load of one uncached module: pc = "deps" while the
\* parameter names are resolved, pc = "body" while the definition runs.
LoadFrame(name) ==
    [f |-> "load", name |-> name, pc |-> "deps", todo |-> <<>>, results |-> <<>>,
     raw |-> FALSE, run |-> FALSE, ops |-> <<>>, out |-> Return("undefined")]

\* Package.define waiting for its this.needs(moduleName)
DefineFrame(name) ==
    [f |-> "define", name |-> name, pc |-> "needs", todo |-> <<>>, results |-> <<>>,
     raw |-> FALSE, run |-> FALSE, ops |-> <<>>, out |-> Return("undefined")]

Top == stack[Len(stack)]

\* A frame whose code is inside a try block: a definition's body making a
\* call marked as caught.
Catches(fr) ==
    /\ fr.f = "load"
    /\ fr.pc = "body"
    /\ fr.ops # <<>>
    /\ Head(fr.ops).caught

\* A thrown error leaves every frame up to the nearest try block; that
\* frame goes on with its next call.  No frame has a finally block, so
\* nothing else is undone.
RECURSIVE Unwind(_)
Unwind(stk) ==
    IF stk = <<>> THEN <<>>
    ELSE LET fr == stk[Len(stk)]
         IN  IF Catches(fr)
             THEN Append(Front(stk), [fr EXCEPT !.ops = Tail(fr.ops)])
             ELSE Unwind(Front(stk))

(***************************************************************************)
(* The steps of the code, as functions from the state to the next state.   *)
(* A state is the record St; "call" is set by the outermost calls only.    *)
(***************************************************************************)
St ==
    [modules |-> modules, loading |-> loading, stack |-> stack,
     invoked |-> invoked, ret |-> ret, ev |-> ev, failed |-> failed,
     defaults |-> defaults, raised |-> raised, order |-> order, console |-> console]

\* ev: the kind of step, the module it is about, and for a throw the error
\* and the modules whose definitions the error has left (innermost first).
Ev(t, name, e) == [t |-> t, name |-> name, e |-> e, from |-> <<>>]

\* The definitions an error thrown on stack stk leaves on its way to the
\* nearest try block.
RECURSIVE LeftBy(_)
LeftBy(stk) ==
    IF stk = <<>> THEN <<>>
    ELSE LET fr == stk[Len(stk)]
         IN  IF Catches(fr) THEN <<>>
             ELSE (IF fr.f = "load" /\ fr.pc = "body" THEN <<fr.name>> ELSE <<>>)
                  \o LeftBy(Front(stk))

\* The modules whose Package.load an error thrown on stack stk leaves on its
\* way to the nearest try block.
RECURSIVE Left(_)
Left(stk) ==
    IF stk = <<>> THEN {}
    ELSE LET fr == stk[Len(stk)]
         IN  IF Catches(fr) THEN {}
             ELSE (IF fr.f = "load" THEN {fr.name} ELSE {}) \cup Left(Front(stk))

RetPending == [k |-> "pending", v |-> "", m |-> <<>>, e |-> NoErr]
RetRaw(v) == [k |-> "raw", v |-> v, m |-> <<>>, e |-> NoErr]
RetMap(m) == [k |-> "map", v |-> "", m |-> m, e |-> NoErr]
RetUndefined == [k |-> "undefined", v |-> "undefined", m |-> <<>>, e |-> NoErr]
RetErr(e) == [k |-> "err", v |-> "", m |-> <<>>, e |-> e]

\* throw: errorMixin.error and the throw statements.  The error leaves the
\* frames up to the nearest try block; with none it reaches the outermost
\* caller.  "resolving" tells a throw of needs/run/load from one of define's
\* argument checks.
throw(s, e, name, resolving) ==
    LET stk == Unwind(s.stack)
        left == Left(s.stack)
    IN  [s EXCEPT !.stack = stk,
                  !.ret = IF stk = <<>> THEN RetErr(e) ELSE s.ret,
                  !.failed = s.failed \/ resolving,
                  !.raised = [n \in (DOMAIN s.raised) \cup left |->
                                 IF n \in left THEN e ELSE s.raised[n]],
                  !.ev = [Ev("throw", name, e) EXCEPT !.from = LeftBy(s.stack)]]

\* A call made by the top frame of s.stack (a definition's body), or by the
\* outermost caller when the stack is empty, has returned r.
returned(s, r, e) ==
    IF s.stack = <<>>
    THEN [s EXCEPT !.ret = r, !.ev = e]
    ELSE LET fr == s.stack[Len(s.stack)]
         IN  [s EXCEPT !.stack = Append(Front(s.stack), [fr EXCEPT !.ops = Tail(fr.ops)]),
                       !.ev = e]

\* The messages of Module.load: 'Loading [name].' and 'Finished loading
\* [name].'
LoadingMsg(name) == [msg |-> "Loading", name |-> name]
FinishedMsg(name) == [msg |-> "Finished loading", name |-> name]

\* A log that writes its message twice.
logTwice(s, str) == [s EXCEPT !.console = Append(Append(@, str), str)]

\* log(str): console.log
log(s, str) == [s EXCEPT !.console = Append(@, str)]

\* this.options[k] as a condition: a key that is missing is undefined.
truthy(options, k) == k \in DOMAIN options /\ options[k]

\* Module.load: if (this.options.logOnLoad) log('Loading [...].')
logOnLoad(s, name) ==
    IF truthy(s.modules[name].options, "logOnLoad") THEN log(s, LoadingMsg(name)) ELSE s

\* Module.load: if (this.options.logAfterLoad) log('Finished loading [...].')
logAfterLoad(s, name) ==
    IF truthy(s.modules[name].options, "logAfterLoad") THEN log(s, FinishedMsg(name)) ELSE s

\* Package.needs, up to its loop: parseNeeds.apply(null, arguments).
\* "raw" is the test of lines 485-487, which needs makes after the loop.
needs(s, args, run) ==
    LET p == parseNeeds(args)
        raw == Len(args) = 1 /\ args[1].t = "str" /\ Len(Split(args[1].s)) = 1
    IN  IF p.ok
        THEN [s EXCEPT !.stack = Append(s.stack, NeedsFrame(p.names, raw, run)),
                       !.ev = Ev("needs", <<>>, NoErr)]
        ELSE throw(s, Err("NoItems", <<>>), <<>>, TRUE)

\* A Module.load that resolves no parameter names before calling the
\* definition.
moduleLoadNoDeps(s, name) ==
    needs([logOnLoad(s, name) EXCEPT !.stack = Append(s.stack, LoadFrame(name))], <<Arr(<<>>)>>, FALSE)

\* A Module.load that resolves the parameter names last to first.
moduleLoadLastFirst(s, name) ==
    needs([logOnLoad(s, name) EXCEPT !.stack = Append(s.stack, LoadFrame(name))],
          <<Arr([i \in 1..Len(getFnParams(s.modules[name].definition)) |->
                    Str(getFnParams(s.modules[name].definition)[
                            Len(getFnParams(s.modules[name].definition)) + 1 - i])])>>,
          FALSE)

\* Module.load of an uncached module, up to its this.needs(paramNames): the
\* 'Loading' message comes first.
moduleLoad(s, name) ==
    needs([logOnLoad(s, name) EXCEPT !.stack = Append(s.stack, LoadFrame(name))],
          <<Arr([i \in 1..Len(getFnParams(s.modules[name].definition)) |->
                    Str(getFnParams(s.modules[name].definition)[i])])>>,
          FALSE)

\* A getModule that puts the unknown name on Package.loading before it
\* throws.
getModulePushes(s, name) ==
    throw([s EXCEPT !.loading = Append(s.loading, name)],
          getModuleError(s.modules, name), name, TRUE)

\* Package.getModule for a name that is not registered: it throws, and
\* Package.load has done nothing before.
getModule(s, name) == throw(s, getModuleError(s.modules, name), name, TRUE)

\* Package.checkCircularDeps
checkCircularDeps(l) == getDuplicates(l)

\* Package.load(name), called by the loop of the needs frame on top of the
\* stack: getModule, addToLoading, checkCircularDeps, module.load(); for a
\* cached module also removeFromLoading and the return into results.
load(s, name) ==
    IF ~exists(s.modules, name)
    THEN getModule(s, name)
    ELSE LET l == Append(s.loading, name)
             dupes == checkCircularDeps(l)
             fr == s.stack[Len(s.stack)]
         IN  IF Len(dupes) > 0
             THEN throw([s EXCEPT !.loading = l], Err("Circular", dupes), name, TRUE)
             ELSE IF isCached(s.modules[name])
             THEN [s EXCEPT
                     !.loading = removeFromArr(l, name),
                     !.stack = Append(Front(s.stack),
                         [fr EXCEPT !.todo = Tail(fr.todo),
                                    !.results = DictPut(fr.results, name,
                                                        getCache(s.modules[name]))]),
                     !.ev = Ev("hit", name, NoErr)]
             ELSE LET s1 == moduleLoad([s EXCEPT !.loading = l], name)
                  IN  [s1 EXCEPT !.ev = Ev("enter", name, NoErr)]

\* Module.callDefinition, up to the first statement of the definition:
\* this._definition.apply(this, values(dependencies)).
callDefinition(s, name, dependencies) ==
    LET fr == s.stack[Len(s.stack)]
        def == s.modules[name].definition
    IN  [s EXCEPT
            !.invoked = [s.invoked EXCEPT ![name] = Append(@, values(dependencies))],
            !.order = Append(s.order, name),
            !.stack = Append(Front(s.stack),
                             [fr EXCEPT !.pc = "body", !.ops = def.body, !.out = def.out]),
            !.ev = Ev("invoke", name, NoErr)]

\* A return of the definition after which nothing goes on.
definitionReturnedStays(s, name, v) == s

\* The definition returned v: Module.cache, the rest of Module.load (the
\* 'Finished loading' message), and the
\* rest of Package.load (removeFromLoading), whose result the needs frame
\* below stores in results.
definitionReturned(s, name, v) ==
    LET below == s.stack[Len(s.stack) - 1]
        m == cache(s.modules[name], v)
    IN  [logAfterLoad(s, name) EXCEPT
            !.modules = [s.modules EXCEPT ![name] = m],
            !.loading = removeFromArr(s.loading, name),
            !.stack = Append(SubSeq(s.stack, 1, Len(s.stack) - 2),
                             [below EXCEPT !.todo = Tail(below.todo),
                                           !.results = DictPut(below.results, name,
                                                               getCache(m))]),
            !.ev = Ev("loaded", name, NoErr)]

\* A definition whose throw is stored as the module's value.
definitionThrewCaches(s, name) ==
    throw([s EXCEPT !.modules = [s.modules EXCEPT ![name] = cache(@, "thrown")]],
          Err("Thrown", <<name>>), name, TRUE)

\* The definition threw: nothing of Module.callDefinition, Module.load or
\* Package.load runs after the call.
definitionThrew(s, name) == throw(s, Err("Thrown", <<name>>), name, TRUE)

\* The checks of define without the one for a registered name.
defineErrorNoDuplicate(mods, moduleName, fn) ==
    IF moduleName.t # "str" THEN Err("InvalidName", <<>>)
    ELSE IF Len(moduleName.s) = 0 THEN Err("EmptyName", <<>>)
    ELSE IF fn.t # "function" THEN Err("InvalidDefinition", <<>>)
    ELSE NoErr

\* The checks of Package.define, in the order of the code.
defineError(mods, moduleName, fn) ==
    IF moduleName.t # "str" THEN Err("InvalidName", <<>>)
    ELSE IF Len(moduleName.s) = 0 THEN Err("EmptyName", <<>>)
    ELSE IF exists(mods, moduleName.s) THEN Err("Duplicate", <<moduleName.s>>)
    ELSE IF fn.t # "function" THEN Err("InvalidDefinition", <<>>)
    ELSE NoErr

\* A test that resolves "main" only, and one that resolves every module.
loadsNowMainOnly(moduleName, options) == moduleName = Main
loadsNowAlways(moduleName, options) == TRUE

\* Whether define resolves the module right away.
loadsNow(moduleName, options) ==
    moduleName = Main \/ ("loadNow" \in DOMAIN options /\ options["loadNow"])

\* Package.define
define(s, moduleName, fnArg, options) ==
    LET fn == IF fnArg.t = "undefined" THEN FnFunction(NoopFn) ELSE fnArg
        e == defineError(s.modules, moduleName, fn)
    IN  IF e.kind # "none"
        THEN throw(s, e, IF moduleName.t = "str" THEN moduleName.s ELSE <<>>, FALSE)
        ELSE LET name == moduleName.s
                 s1 == [s EXCEPT
                          !.modules = addModule(s.modules, name, fn.def, options, s.defaults),
                          !.invoked = [n \in (DOMAIN s.invoked) \cup {name} |->
                                          IF n = name THEN <<>> ELSE s.invoked[n]]]
             IN  IF loadsNow(name, options)
                 THEN LET s2 == needs([s1 EXCEPT !.stack = Append(s1.stack, DefineFrame(name))],
                                      <<Str(name)>>, FALSE)
                      IN  [s2 EXCEPT !.ev = IF s2.ev.t = "needs"
                                            THEN Ev("defining", name, NoErr) ELSE s2.ev]
                 ELSE returned(s1, RetUndefined, Ev("defined", name, NoErr))

\* A run that passes on its first argument only.
runFirstOnly(s, args) == needs(s, <<args[1]>>, TRUE)

\* Package.run, up to the loop of the needs it calls.
run(s, args) == needs(s, args, TRUE)

\* Package.config
config(s, options) ==
    returned([s EXCEPT !.defaults = merge(s.defaults, options)], RetUndefined,
             Ev("config", <<>>, NoErr))

\* A needsResult that never unwraps.
needsResultMap(fr) == IF fr.run THEN RetUndefined ELSE RetMap(fr.results)

\* What Package.needs returns after its loop (and Package.run after needs).
needsResult(fr) ==
    IF fr.run THEN RetUndefined
    ELSE IF fr.raw THEN RetRaw(values(fr.results)[1])
    ELSE RetMap(fr.results)

\* The next step of the code in state s, whose call stack is not empty: the
\* running activation goes on.
Step(s) ==
    LET top == s.stack[Len(s.stack)]
        below == s.stack[Len(s.stack) - 1]
        popped == [s EXCEPT !.stack = Front(s.stack)]
    IN  IF top.f = "needs"
        THEN IF top.todo # <<>> THEN load(s, Head(top.todo))
             ELSE IF Len(s.stack) = 1
                  THEN returned(popped, needsResult(top), Ev("return", <<>>, NoErr))
             ELSE IF below.f = "load" /\ below.pc = "deps"
                  THEN callDefinition(popped, below.name, top.results)
             ELSE IF below.f = "load"
                  THEN returned(popped, needsResult(top), Ev("inner", below.name, NoErr))
             ELSE returned([s EXCEPT !.stack = SubSeq(s.stack, 1, Len(s.stack) - 2)],
                           RetUndefined, Ev("definedNow", below.name, NoErr))
        ELSE IF top.ops # <<>>
             THEN LET op == Head(top.ops)
                  IN  IF op.op = "define" THEN define(s, op.name, op.fn, op.opts)
                      ELSE IF op.op = "run" THEN run(s, op.args)
                      ELSE needs(s, op.args, FALSE)
        ELSE IF top.out.k = "return"
             THEN definitionReturned(s, top.name, top.out.v)
        ELSE definitionThrew(s, top.name)

\* The state in which the outermost call in progress in s is over: JavaScript
\* runs a call to its end before the caller goes on.
RECURSIVE Finish(_)
Finish(s) == IF s.stack = <<>> THEN s ELSE Finish(Step(s))

(***************************************************************************)
(* The calls the environment makes.  An application is a set of define     *)
(* statements, one per module name: the function and the options it        *)
(* passes.  The environment runs one application: it makes the define      *)
(* calls in any order, repeats them, and calls needs and run in between.   *)
(***************************************************************************)

\* No outermost call is made once Package.loading has this many entries.
MaxLoading == 3

Def(fn, opts) == [fn |-> fn, opts |-> opts]

\* A diamond: a needs b and c, which both need d.
AppDiamond ==
    (NA :> Def(FnFunction(Fn(<<NB, NC>>, <<>>, Return("va"))), NoOptions)) @@
    (NB :> Def(FnFunction(Fn(<<ND>>, <<>>, Return("vb"))), NoOptions)) @@
    (NC :> Def(FnFunction(Fn(<<ND>>, <<>>, Return("vc"))), NoOptions)) @@
    (ND :> Def(FnFunction(Fn(<<>>, <<>>, Return("vd"))), NoOptions))

\* test.js "creates a circular dependency and throws an error", with the
\* cycle of the three modules closed: a needs b, b needs c, c needs a and b;
\* main calls this.needs('c') inside a try block.
AppCycle ==
    (NA :> Def(FnFunction(Fn(<<NB>>, <<>>, Return("va"))), NoOptions)) @@
    (NB :> Def(FnFunction(Fn(<<NC>>, <<>>, Return("vb"))), NoOptions)) @@
    (NC :> Def(FnFunction(Fn(<<NA, NB>>, <<>>, Return("vc"))), NoOptions)) @@
    (Main :> Def(FnFunction(Fn(<<>>, <<OpNeeds(<<Str(NC)>>, TRUE)>>, Return("vm"))),
                 NoOptions))

\* test.js "imports itself and throws an error" and "imports a module":
\* a needs itself, b needs d, both with loadNow; main has no definition.
AppLoadNow ==
    (NA :> Def(FnFunction(Fn(<<NA>>, <<>>, Return("va"))), LoadNow)) @@
    (NB :> Def(FnFunction(Fn(<<ND>>, <<>>, Return("vb"))), LoadNow)) @@
    (ND :> Def(FnFunction(Fn(<<>>, <<>>, Return("vd"))), NoOptions)) @@
    (Main :> Def(FnUndefined, NoOptions))

\* A definition that throws: d throws, c returns, a needs c and d, b needs d
\* and itself, main calls this.run('a') inside a try block and
\* this.needs('c') outside one.
AppThrow ==
    (NB :> Def(FnFunction(Fn(<<ND, NB>>, <<>>, Return("vb"))), NoOptions)) @@
    (ND :> Def(FnFunction(Fn(<<>>, <<>>, Throw)), NoOptions)) @@
    (NC :> Def(FnFunction(Fn(<<>>, <<>>, Return("vc"))), NoOptions)) @@
    (NA :> Def(FnFunction(Fn(<<NC, ND>>, <<>>, Return("va"))), NoOptions)) @@
    (Main :> Def(FnFunction(Fn(<<>>, <<OpRun(<<Str(NA)>>, TRUE),
                                      OpNeeds(<<Str(NC)>>, FALSE)>>, Return("vm"))),
                 NoOptions))

\* Modules defined by a definition (header comment, "Defining modules
\* dynamically"): main defines d and then needs it; a is defined with
\* something that is not a function; b defines d inside a try block.
AppDynamic ==
    (Main :> Def(FnFunction(Fn(<<>>, <<OpDefine(Str(ND), FnUndefined, NoOptions, FALSE),
                                      OpNeeds(<<Str(ND)>>, FALSE)>>, Return("vm"))),
                 NoOptions)) @@
    (NA :> Def(FnObject, NoOptions)) @@
    (NB :> Def(FnFunction(Fn(<<>>, <<OpDefine(Str(ND), FnFunction(Fn(<<>>, <<>>, Return("vd"))),
                                              LoadNow, TRUE)>>, Return("vb"))),
               NoOptions))

\* test.js "loads 3 modules with namespacing" and "calls needs() with an
\* array of strings": n/a, n/b and a return values, main calls
\* this.needs('n: a b').
AppNamespace ==
    (NSA :> Def(FnFunction(Fn(<<>>, <<>>, Return("vna"))), NoOptions)) @@
    (NSB :> Def(FnFunction(Fn(<<>>, <<>>, Return("vnb"))), NoOptions)) @@
    (NA :> Def(FnFunction(Fn(<<>>, <<>>, Return("va"))), NoOptions)) @@
    (Main :> Def(FnFunction(Fn(<<>>, <<OpNeeds(<<Str(<<"n", ":">> \o Sp \o NA \o Sp \o NB)>>,
                                              FALSE)>>, Return("vm"))),
                 NoOptions))

\* Module names that differ in letter case only: Ab is registered, c needs
\* ab.
AppCase ==
    (NAb :> Def(FnFunction(Fn(<<>>, <<>>, Return("vAb"))), NoOptions)) @@
    (NC :> Def(FnFunction(Fn(<<NA \o NB>>, <<>>, Return("vc"))), NoOptions))

\* test.js "configures all modules to load immediately": a needs b and is
\* defined without options, b is defined with {loadNow: false}, c with
\* {logOnLoad: true}; the environment calls app.config in between.
AppConfig ==
    (NA :> Def(FnFunction(Fn(<<NB>>, <<>>, Return("va"))), NoOptions)) @@
    (NB :> Def(FnFunction(Fn(<<>>, <<>>, Return("vb"))), LoadLater)) @@
    (NC :> Def(FnFunction(Fn(<<>>, <<>>, Return("vc"))), LogOnLoad))

\* test.js "interprets './' to mean the current module name within an
\* import": t/x returns null, t calls this.needs('./x') and is defined with
\* loadNow.
AppRelative ==
    (NTX :> Def(FnFunction(Fn(<<>>, <<>>, Return("null"))), NoOptions)) @@
    (NT :> Def(FnFunction(Fn(<<>>, <<OpNeeds(<<Str(DotSlashX)>>, FALSE)>>, Return("vt"))),
               LoadNow))

\* Modules that log: a needs b and returns, c needs b and throws, all three
\* defined with {logOnLoad: true, logAfterLoad: true}.
AppLog ==
    (NA :> Def(FnFunction(Fn(<<NB>>, <<>>, Return("va"))), LogBoth)) @@
    (NB :> Def(FnFunction(Fn(<<>>, <<>>, Return("vb"))), LogBoth)) @@
    (NC :> Def(FnFunction(Fn(<<NB>>, <<>>, Throw)), LogBoth))

Apps ==
    {AppDiamond, AppCycle, AppLoadNow, AppThrow, AppDynamic, AppNamespace, AppCase,
     AppConfig, AppRelative, AppLog}

\* The function a repeated define passes for a name that is registered.
OtherFn == FnFunction(Fn(<<>>, <<>>, Return("other")))

\* The other argument lists needs and run are called with: several names in
\* one string, the namespace shorthand, arrays, several arguments, a string
\* that starts with whitespace; names in another letter case.
MoreArgs(a) ==
    IF a = AppNamespace
    THEN {<<Str(NA \o Sp \o NSA)>>,
          <<Str(NA \o Sp \o NA)>>,
          <<Str(<<"n", ":">> \o Sp \o NA \o Sp \o NB)>>,
          <<Str(<<"n", ":">> \o Sp \o NA)>>,
          <<Str(<<"n", ":">>)>>,
          <<Str(Sp \o NA)>>,
          <<Arr(<<Str(NA)>>)>>,
          <<Arr(<<>>)>>,
          <<Str(NSB), Str(NA)>>,
          <<Arr(<<Str(<<"n", ":">> \o Sp \o NB \o Sp \o NA)>>), Str(NA \o Sp \o NSA)>>}
    ELSE IF a = AppCase
    THEN {<<Str(<<"a", "b">>)>>, <<Str(<<"A", "B">>)>>}
    ELSE IF a = AppDiamond
    THEN {<<Str(NC \o Sp \o NB)>>}
    ELSE IF a = AppThrow
    THEN {<<Str(NB \o Sp \o NC)>>}
    ELSE {}

\* The names needs and run are called with.
NeedsArgs(a) == {<<Str(n)>> : n \in (DOMAIN a) \cup {ND}} \cup MoreArgs(a)

\* The options app.config is called with.
ConfigOptions(a) == IF a = AppConfig THEN {LoadNow, LoadLaterLogAfter} ELSE {}

(***************************************************************************)
(* Specification                                                           *)
(***************************************************************************)
NoCall ==
    [op |-> "none", name |-> NotAString, fn |-> FnUndefined, opts |-> NoOptions,
     args |-> <<>>, pre |-> [modules |-> <<>>, loading |-> <<>>, invoked |-> <<>>,
                             failed |-> FALSE, defaults |-> defaultModuleOptions,
                             raised |-> <<>>]]

\* The result of a call of parseNeeds on its own: not made yet, or made.
NotParsed == [done |-> FALSE, ok |-> TRUE, names |-> <<>>]
Parsed(p) == [done |-> TRUE, ok |-> p.ok, names |-> p.names]

\* The result of a call of getDuplicates on its own: not made yet, or made.
NoDupes == [done |-> FALSE, v |-> <<>>]
Dupes(v) == [done |-> TRUE, v |-> v]

\* new pillar.Package()
Init ==
    /\ modules = <<>>
    /\ loading = <<>>
    /\ stack = <<>>
    /\ invoked = <<>>
    /\ call = NoCall
    /\ ret = RetPending
    /\ ev = Ev("new", <<>>, NoErr)
    /\ failed = FALSE
    /\ defaults = defaultModuleOptions
    /\ raised = <<>>
    /\ order = <<>>
    /\ console = <<>>
    /\ app \in Apps
    /\ arguments = <<>>
    /\ parsed = NotParsed
    /\ items = <<>>
    /\ duplicates = NoDupes

Apply(s) ==
    /\ modules' = s.modules
    /\ loading' = s.loading
    /\ stack' = s.stack
    /\ invoked' = s.invoked
    /\ ret' = s.ret
    /\ ev' = s.ev
    /\ failed' = s.failed
    /\ defaults' = s.defaults
    /\ raised' = s.raised
    /\ order' = s.order
    /\ console' = s.console
    /\ UNCHANGED <<arguments, parsed, items, duplicates>>
    /\ app' = app

Idle == stack = <<>> /\ Len(loading) < MaxLoading

\* The state in which an outermost call starts.
Called == [St EXCEPT !.ret = RetPending, !.order = <<>>]

Pre ==
    [modules |-> modules, loading |-> loading, invoked |-> invoked, failed |-> failed,
     defaults |-> defaults, raised |-> raised]

\* An outermost app.define(moduleName, fn, options): a define statement of
\* the application, or, for a name that is registered, one with another
\* function.
CallDefine ==
    /\ Idle
    /\ \E n \in DOMAIN app :
         LET fn == IF exists(modules, n) THEN OtherFn ELSE app[n].fn
         IN  /\ call' = [op |-> "define", name |-> Str(n), fn |-> fn,
                         opts |-> app[n].opts, args |-> <<>>, pre |-> Pre]
             /\ Apply(define(Called, Str(n), fn, app[n].opts))

\* An outermost app.define with a first argument that is no module name:
\* the empty string, or not a string.
CallDefineNoName ==
    /\ Idle
    /\ \E moduleName \in {Str(<<>>), NotAString} :
          /\ call' = [op |-> "define", name |-> moduleName, fn |-> OtherFn,
                      opts |-> NoOptions, args |-> <<>>, pre |-> Pre]
          /\ Apply(define(Called, moduleName, OtherFn, NoOptions))

\* An outermost app.needs(...)
CallNeeds ==
    /\ Idle
    /\ \E args \in NeedsArgs(app) :
          /\ call' = [op |-> "needs", name |-> NotAString, fn |-> FnUndefined,
                      opts |-> NoOptions, args |-> args, pre |-> Pre]
          /\ Apply(needs(Called, args, FALSE))

\* An outermost app.run(...)
CallRun ==
    /\ Idle
    /\ \E args \in NeedsArgs(app) :
          /\ call' = [op |-> "run", name |-> NotAString, fn |-> FnUndefined,
                      opts |-> NoOptions, args |-> args, pre |-> Pre]
          /\ Apply(run(Called, args))

\* An outermost app.config(options)
CallConfig ==
    /\ Idle
    /\ \E options \in ConfigOptions(app) :
          /\ call' = [op |-> "config", name |-> NotAString, fn |-> FnUndefined,
                      opts |-> options, args |-> <<>>, pre |-> Pre]
          /\ Apply(config(Called, options))

\* The loop of Package.needs calls this.load for its next name.
NeedsLoad ==
    /\ stack # <<>>
    /\ Top.f = "needs"
    /\ Top.todo # <<>>
    /\ Apply(load(St, Head(Top.todo)))
    /\ UNCHANGED call

\* The needs called by Module.load returns: the definition is called.
Invoke ==
    /\ Len(stack) > 1
    /\ Top.f = "needs"
    /\ Top.todo = <<>>
    /\ stack[Len(stack) - 1].f = "load"
    /\ stack[Len(stack) - 1].pc = "deps"
    /\ Apply(callDefinition([St EXCEPT !.stack = Front(stack)],
                            stack[Len(stack) - 1].name, Top.results))
    /\ UNCHANGED call

\* A needs or run called by a definition's body returns.
InnerReturn ==
    /\ Len(stack) > 1
    /\ Top.f = "needs"
    /\ Top.todo = <<>>
    /\ stack[Len(stack) - 1].f = "load"
    /\ stack[Len(stack) - 1].pc = "body"
    /\ Apply(returned([St EXCEPT !.stack = Front(stack)], needsResult(Top),
                      Ev("inner", stack[Len(stack) - 1].name, NoErr)))
    /\ UNCHANGED call

\* The needs called by define returns, and define returns.
DefineReturn ==
    /\ Len(stack) > 1
    /\ Top.f = "needs"
    /\ Top.todo = <<>>
    /\ stack[Len(stack) - 1].f = "define"
    /\ Apply(returned([St EXCEPT !.stack = SubSeq(stack, 1, Len(stack) - 2)],
                      RetUndefined, Ev("definedNow", stack[Len(stack) - 1].name, NoErr)))
    /\ UNCHANGED call

\* An outermost needs or run returns.
TopReturn ==
    /\ Len(stack) = 1
    /\ Top.f = "needs"
    /\ Top.todo = <<>>
    /\ Apply(returned([St EXCEPT !.stack = <<>>], needsResult(Top),
                      Ev("return", <<>>, NoErr)))
    /\ UNCHANGED call

\* A definition's body makes its next call.
BodyCall ==
    /\ stack # <<>>
    /\ Top.f = "load"
    /\ Top.pc = "body"
    /\ Top.ops # <<>>
    /\ LET op == Head(Top.ops)
       IN  Apply(IF op.op = "define" THEN define(St, op.name, op.fn, op.opts)
                 ELSE IF op.op = "run" THEN run(St, op.args)
                 ELSE needs(St, op.args, FALSE))
    /\ UNCHANGED call

\* A definition returns its value.
BodyReturn ==
    /\ stack # <<>>
    /\ Top.f = "load"
    /\ Top.pc = "body"
    /\ Top.ops = <<>>
    /\ Top.out.k = "return"
    /\ Apply(definitionReturned(St, Top.name, Top.out.v))
    /\ UNCHANGED call

\* A definition throws.
BodyThrow ==
    /\ stack # <<>>
    /\ Top.f = "load"
    /\ Top.pc = "body"
    /\ Top.ops = <<>>
    /\ Top.out.k = "throw"
    /\ Apply(definitionThrew(St, Top.name))
    /\ UNCHANGED call

Next ==
    \/ CallDefine
    \/ CallDefineNoName
    \/ CallNeeds
    \/ CallRun
    \/ CallConfig
    \/ NeedsLoad
    \/ Invoke
    \/ InnerReturn
    \/ DefineReturn
    \/ TopReturn
    \/ BodyCall
    \/ BodyReturn
    \/ BodyThrow

Spec == Init /\ [][Next]_vars

(***************************************************************************)
(* Applications whose definitions call nothing themselves: all they        *)
(* request are their declared dependencies.  JavaScript runs a call to its *)
(* end before anything else happens, so the steps of a call in progress    *)
(* (Running) are always taken; the calls of the environment are not.       *)
(***************************************************************************)
Only(a, names) == [n \in names |-> a[n]]

AppsDeclaredOnly ==
    {AppLoadNow, Only(AppCycle, {NA, NB, NC}), Only(AppThrow, {NB, ND})}

InitLive ==
    /\ modules = <<>>
    /\ loading = <<>>
    /\ stack = <<>>
    /\ invoked = <<>>
    /\ call = NoCall
    /\ ret = RetPending
    /\ ev = Ev("new", <<>>, NoErr)
    /\ failed = FALSE
    /\ defaults = defaultModuleOptions
    /\ raised = <<>>
    /\ order = <<>>
    /\ console = <<>>
    /\ app \in AppsDeclaredOnly
    /\ arguments = <<>>
    /\ parsed = NotParsed
    /\ items = <<>>
    /\ duplicates = NoDupes

Running ==
    \/ NeedsLoad
    \/ Invoke
    \/ DefineReturn
    \/ TopReturn
    \/ BodyReturn
    \/ BodyThrow

NextLive ==
    \/ CallDefine
    \/ CallNeeds
    \/ CallRun
    \/ Running

SpecLive == InitLive /\ [][NextLive]_vars /\ WF_vars(Running)

(***************************************************************************)
(* parseNeeds on its own (pillar.util is not exported, test.js reaches it  *)
(* through the closure): the arguments are drawn from strings over a small *)
(* alphabet and from nested arrays of a few strings, and one step applies  *)
(* parseNeeds to them.                                                     *)
(***************************************************************************)
Alphabet == {"a", ":", " "}

\* The longest string, and the deepest nesting of arrays.
MaxStr == 5
MaxDepth == 2

Strings(n) == UNION {[1..k -> Alphabet] : k \in 0..n}

\* The strings the arrays are made of: 'b', 'n: a b' and ''.
Elements == {Str(NB), Str(<<"n", ":">> \o Sp \o NA \o Sp \o NB), Str(<<>>)}

\* Arrays of at most two items of V.
Arrays(V) == {Arr(<<>>)} \cup {Arr(<<x>>) : x \in V} \cup {Arr(<<x, y>>) : x, y \in V}

RECURSIVE Values(_)
Values(depth) ==
    IF depth = 0 THEN Elements ELSE Elements \cup Arrays(Values(depth - 1))

\* parseNeeds(x), parseNeeds(x, y) and parseNeeds(x, y, z)
ParseArguments ==
    {<<Str(str)>> : str \in Strings(MaxStr)}
    \cup {<<v>> : v \in Values(MaxDepth)}
    \cup {<<x, y>> : x, y \in Values(1)}
    \cup {<<x, y, z>> : x, y, z \in Elements}

InitParse ==
    /\ modules = <<>>
    /\ loading = <<>>
    /\ stack = <<>>
    /\ invoked = <<>>
    /\ call = NoCall
    /\ ret = RetPending
    /\ ev = Ev("new", <<>>, NoErr)
    /\ failed = FALSE
    /\ defaults = defaultModuleOptions
    /\ raised = <<>>
    /\ order = <<>>
    /\ console = <<>>
    /\ app = AppNamespace
    /\ arguments \in ParseArguments
    /\ parsed = NotParsed
    /\ items = <<>>
    /\ duplicates = NoDupes

\* parseNeeds.apply(null, arguments)
ParseNeeds ==
    /\ ~parsed.done
    /\ parsed' = Parsed(parseNeeds(arguments))
    /\ UNCHANGED <<modules, loading, stack, invoked, call, ret, ev, failed, defaults,
                   raised, order, console, app, arguments, items, duplicates>>

NextParse == ParseNeeds

SpecParse == InitParse /\ [][NextParse]_vars

(***************************************************************************)
(* getDuplicates on its own (test.js "returns duplicate values in an       *)
(* array"): the argument is an array of at most MaxArr numbers out of      *)
(* Items, and one step applies getDuplicates to it.                        *)
(***************************************************************************)
Items == {1, 2, 3}

\* The longest array.
MaxArr == 6

DuplicatesArguments == UNION {[1..k -> Items] : k \in 0..MaxArr}

InitDuplicates ==
    /\ modules = <<>>
    /\ loading = <<>>
    /\ stack = <<>>
    /\ invoked = <<>>
    /\ call = NoCall
    /\ ret = RetPending
    /\ ev = Ev("new", <<>>, NoErr)
    /\ failed = FALSE
    /\ defaults = defaultModuleOptions
    /\ raised = <<>>
    /\ order = <<>>
    /\ console = <<>>
    /\ app = AppDiamond
    /\ arguments = <<>>
    /\ parsed = NotParsed
    /\ items \in DuplicatesArguments
    /\ duplicates = NoDupes

\* getDuplicates(arr)
GetDuplicates ==
    /\ ~duplicates.done
    /\ duplicates' = Dupes(getDuplicates(items))
    /\ UNCHANGED <<modules, loading, stack, invoked, call, ret, ev, failed, defaults,
                   raised, order, console, app, arguments, parsed, items>>

NextDuplicates == GetDuplicates

SpecDuplicates == InitDuplicates /\ [][NextDuplicates]_vars

(***************************************************************************)
(* Properties                                                              *)
(***************************************************************************)

\* The module a one-string needs/run call names.
CallName == call.args[1].s

\* An outermost needs(name) with one name has been made and is over.
NeedsOver ==
    /\ stack = <<>>
    /\ call.op = "needs"
    /\ ret.k # "pending"

\* C1: over any sequence of define, needs and run calls, nested calls and
\* calls that end in an error included, the definition of every module has
\* been called at most once.
C1_InvokedAtMostOnce ==
    \A n \in DOMAIN invoked : Len(invoked[n]) <= 1

\* C1 witness: a module whose definition had been called before a needs of
\* its name was made, and that needs is over (returned or threw).
C1_Witness ==
    /\ NeedsOver
    /\ CallName \in DOMAIN call.pre.invoked
    /\ Len(call.pre.invoked[CallName]) = 1
    /\ Len(invoked[CallName]) = 1

\* C2 (as claimed): a needs(name) made when the module is cached returns the
\* cached value and throws nothing, whatever calls were made before.
C2_CachedNeedsReturnsCache ==
    (/\ NeedsOver
     /\ CallName \in DOMAIN call.pre.modules
     /\ call.pre.modules[CallName].isCached)
    => (ret.k = "raw" /\ ret.v = call.pre.modules[CallName].cache)

\* The declared dependencies of a registered module.
Params(mods, n) == getFnParams(mods[n].definition)

\* The names reached from the names in todo along the declared dependencies
\* of registered, uncached modules (cached modules are not resolved again).
RECURSIVE ReachFrom(_, _, _)
ReachFrom(mods, todo, seen) ==
    IF todo = {} THEN seen
    ELSE LET n == CHOOSE x \in todo : TRUE
             next == IF n \in DOMAIN mods /\ ~mods[n].isCached
                     THEN Range(Params(mods, n)) ELSE {}
         IN  ReachFrom(mods, (todo \cup next) \ (seen \cup {n}), seen \cup {n})

Reachable(mods, n) == ReachFrom(mods, {n}, {})

\* u is an uncached module on a cycle of declared dependencies.
OnCycle(mods, u) ==
    /\ u \in DOMAIN mods
    /\ ~mods[u].isCached
    /\ u \in ReachFrom(mods, Range(Params(mods, u)), {})

\* The case of C3: needs(name) was called when no resolution had failed, every
\* name reachable from name was registered, and the uncached modules reachable
\* from name had a cycle among their declared dependencies.
C3_Case ==
    /\ NeedsOver
    /\ ~call.pre.failed
    /\ Reachable(call.pre.modules, CallName) \subseteq DOMAIN call.pre.modules
    /\ \E u \in Reachable(call.pre.modules, CallName) : OnCycle(call.pre.modules, u)

C3_CycleNotInvoked ==
    \A u \in Reachable(call.pre.modules, CallName) :
        OnCycle(call.pre.modules, u) => invoked[u] = <<>>

\* C3 (as claimed): in that case needs(name) fails with the circular
\* dependency error and no definition of a module on the cycle is called.
C3_CycleRaisesCircular ==
    C3_Case => (ret.k = "err" /\ ret.e.kind = "Circular" /\ C3_CycleNotInvoked)

\* C3 (amended): in that case needs(name) fails, with the circular dependency
\* error unless the error is one that a definition called during the
\* resolution let escape, and no definition of a module on the cycle is
\* called.
C3_CycleRaises ==
    C3_Case => (/\ ret.k = "err"
                /\ (ev.from = <<>> => ret.e.kind = "Circular")
                /\ C3_CycleNotInvoked)

\* C3 witness: a cycle of three modules reached through declared
\* dependencies, reported by the circular dependency error.
C3_Witness ==
    /\ C3_Case
    /\ ret.k = "err"
    /\ ret.e.kind = "Circular"
    /\ Cardinality({u \in Reachable(call.pre.modules, CallName) :
                       OnCycle(call.pre.modules, u)}) = 3

\* A definition that makes no calls of its own and returns.
Plain(def) == def.body = <<>> /\ def.out.k = "return"

\* Modules A, B, C, D of mods form a diamond: A declares B and C, B and C
\* each declare D, D declares nothing, and the four definitions are plain.
Diamond(mods, A, B, C, D) ==
    /\ {A, B, C, D} \subseteq DOMAIN mods
    /\ Cardinality({A, B, C, D}) = 4
    /\ Params(mods, A) = <<B, C>>
    /\ Params(mods, B) = <<D>>
    /\ Params(mods, C) = <<D>>
    /\ Params(mods, D) = <<>>
    /\ \A n \in {A, B, C, D} : Plain(mods[n].definition)

\* C4: needs(A) on the top of a diamond, called when no resolution had failed,
\* returns the value of A (no circular dependency error), and the definition
\* of D has been called exactly once.
C4_DiamondResolves ==
    \A B, C, D \in DOMAIN call.pre.modules :
        (/\ NeedsOver
         /\ ~call.pre.failed
         /\ Diamond(call.pre.modules, CallName, B, C, D))
        => (/\ ret.k = "raw"
            /\ modules[CallName].isCached
            /\ ret.v = modules[CallName].cache
            /\ Len(invoked[D]) = 1)

\* C4 witness: a diamond none of whose modules was cached has been resolved
\* by one needs(A).
C4_Witness ==
    \E B, C, D \in DOMAIN call.pre.modules :
        /\ NeedsOver
        /\ ~call.pre.failed
        /\ Diamond(call.pre.modules, CallName, B, C, D)
        /\ \A n \in {CallName, B, C, D} : ~call.pre.modules[n].isCached
        /\ ret.k = "raw"
        /\ Len(invoked[D]) = 1

\* C5: when a definition is called, every dependency it declares is
\* registered and cached.
C5_DepsCachedAtInvoke ==
    ev.t = "invoke" =>
        \A d \in Range(Params(modules, ev.name)) :
            d \in DOMAIN modules /\ modules[d].isCached

\* C5 witness: a definition with two declared dependencies is called.
C5_Witness ==
    /\ ev.t = "invoke"
    /\ Len(Params(modules, ev.name)) = 2

\* C6: a definition is called with one argument per declared dependency
\* name, the i-th argument being the cached value of the i-th dependency.
C6_ArgsAreDepValues ==
    ev.t = "invoke" =>
        LET ps == Params(modules, ev.name)
            a == invoked[ev.name][Len(invoked[ev.name])]
        IN  /\ Len(a) = Len(ps)
            /\ \A i \in 1..Len(ps) :
                  /\ ps[i] \in DOMAIN modules
                  /\ modules[ps[i]].isCached
                  /\ a[i] = modules[ps[i]].cache

\* C6 witness: a definition is called with two different values.
C6_Witness ==
    /\ ev.t = "invoke"
    /\ Len(invoked[ev.name][1]) = 2
    /\ invoked[ev.name][1][1] # invoked[ev.name][1][2]

\* Everything reached from the names in todo along declared dependencies.
RECURSIVE Closure(_, _, _)
Closure(mods, todo, seen) ==
    IF todo = {} THEN seen
    ELSE LET n == CHOOSE x \in todo : TRUE
             next == IF n \in DOMAIN mods THEN Range(Params(mods, n)) ELSE {}
         IN  Closure(mods, (todo \cup next) \ (seen \cup {n}), seen \cup {n})

OptTrue(options, k) == k \in DOMAIN options /\ options[k]

\* A define whose name is "main" or whose options set loadNow has returned:
\* either it returned after resolving the module, or it is the outermost
\* define just made, or a define of "main" made by a definition.
DefineOfLoadNowReturned ==
    \/ ev.t = "definedNow"
    \/ /\ ev.t = "defined"
       /\ \/ ev.name = Main
          \/ /\ stack = <<>>
             /\ call.op = "define"
             /\ call.name = Str(ev.name)
             /\ OptTrue(call.opts, "loadNow")

IsDefineStep ==
    \/ stack = <<>> /\ call'.op = "define"
    \/ /\ stack # <<>>
       /\ Top.f = "load"
       /\ Top.pc = "body"
       /\ Top.ops # <<>>
       /\ Head(Top.ops).op = "define"

DefineArgs ==
    IF stack = <<>>
    THEN [name |-> call'.name, fn |-> call'.fn, opts |-> call'.opts]
    ELSE [name |-> Head(Top.ops).name, fn |-> Head(Top.ops).fn,
          opts |-> Head(Top.ops).opts]

C9_DuplicateKeepsFirst ==
    [][(/\ IsDefineStep
        /\ DefineArgs.name.t = "str"
        /\ DefineArgs.name.s \in DOMAIN modules)
       => (/\ ev'.t = "throw"
           /\ ev'.e.kind = "Duplicate"
           /\ modules' = modules
           /\ invoked' = invoked
           /\ loading' = loading)
      ]_vars

\* C9 witness: a define with another function for a registered, cached
\* module has thrown the duplicate error.
C9_Witness ==
    /\ stack = <<>>
    /\ call.op = "define"
    /\ ret.k = "err"
    /\ ret.e.kind = "Duplicate"
    /\ call.fn.def # modules[call.name.s].definition
    /\ modules[call.name.s].isCached

\* C10 (as claimed): an outermost define whose name is not a non-empty
\* string, or whose definition is given and is not a function, throws and
\* leaves modules and Package.loading unchanged; an outermost define of a
\* new name with the definition omitted does not throw and registers a
\* module whose definition is function(){}.
C10_DefineValidates ==
    (stack = <<>> /\ call.op = "define") =>
        /\ (\/ call.name.t # "str"
            \/ call.name.s = <<>>
            \/ call.fn.t = "object")
           => (/\ ret.k = "err"
               /\ modules = call.pre.modules
               /\ loading = call.pre.loading)
        /\ (/\ call.name.t = "str"
            /\ call.name.s # <<>>
            /\ call.name.s \notin DOMAIN call.pre.modules
            /\ call.fn.t = "undefined")
           => (/\ ret.k = "undefined"
               /\ call.name.s \in DOMAIN modules
               /\ modules[call.name.s].definition = NoopFn)

\* The argument list is one string that is a single token: not empty and
\* with no whitespace in it.
OneToken(args) ==
    /\ Len(args) = 1
    /\ args[1].t = "str"
    /\ args[1].s # <<>>
    /\ \A i \in 1..Len(args[1].s) : args[1].s[i] \notin Whitespace

\* C11: a needs call that succeeds returns the module's raw value exactly
\* when it was called with one argument that is a string of one token; for
\* every other shape of the arguments it returns a mapping.
C11_UnwrapRule ==
    (NeedsOver /\ ret.k # "err")
    => /\ ret.k \in {"raw", "map"}
       /\ ret.k = "raw" <=> OneToken(call.args)
       /\ ret.k = "raw" => ret.v = modules[call.args[1].s].cache

\* C11 witness: a needs with one string of two tokens has returned a mapping
\* of two entries, and (second witness) a needs with an array of one name a
\* mapping of one entry.
C11_Witness ==
    /\ NeedsOver
    /\ ret.k = "map"
    /\ Len(call.args) = 1
    /\ call.args[1].t = "str"
    /\ Len(ret.m) = 2

C11_WitnessArray ==
    /\ NeedsOver
    /\ ret.k = "map"
    /\ call.args = <<Arr(<<Str(NA)>>)>>
    /\ Len(ret.m) = 1

\* C12: a mapping returned by needs has exactly one entry per distinct parsed
\* name, its keys are the parsed (fully qualified) names, and the value of
\* each entry is the cached value of the module of that name.
C12_MappingEntries ==
    (NeedsOver /\ ret.k = "map")
    => /\ Range(DictKeys(ret.m)) = Range(parseNeeds(call.args).names)
       /\ Len(ret.m) = Cardinality(Range(parseNeeds(call.args).names))
       /\ \A i \in 1..Len(ret.m) :
             /\ ret.m[i][1] \in DOMAIN modules
             /\ modules[ret.m[i][1]].isCached
             /\ ret.m[i][2] = modules[ret.m[i][1]].cache

\* C12 witness: a needs whose arguments parse to four names, three of them
\* distinct and two written with the namespace shorthand, has returned a
\* mapping of three entries with the key n/b.
C12_Witness ==
    /\ NeedsOver
    /\ ret.k = "map"
    /\ Len(parseNeeds(call.args).names) = 4
    /\ Len(ret.m) = 3
    /\ DictHas(ret.m, NSB)

\* The steps the specification takes while a call is in progress are the
\* steps of Step.
StepIsNext == [][stack # <<>> => St' = Step(St)]_vars

\* What a call of needs and a call of run with the same arguments leave
\* behind when made in the same state s.
SameEffect(n, r) ==
    /\ n.modules = r.modules
    /\ n.loading = r.loading
    /\ n.invoked = r.invoked
    /\ n.defaults = r.defaults
    /\ (n.ret.k = "err") <=> (r.ret.k = "err")
    /\ n.ret.k = "err" => n.ret.e = r.ret.e
    /\ r.ret.k # "err" => r.ret = RetUndefined

\* C13: in every state between two outermost calls and for every argument
\* list, run leaves the modules, their caches and Package.loading as needs
\* would, throws the same error if needs would throw, and returns undefined
\* otherwise.
C13_RunIsNeedsWithoutValue ==
    stack = <<>>
    => \A args \in NeedsArgs(app) :
          SameEffect(Finish(needs(Called, args, FALSE)),
                     Finish(run(Called, args)))

\* C13 witness: a run with two arguments has cached modules and returned
\* undefined, and (second witness) a run has thrown and left a name on
\* Package.loading.
C13_Witness ==
    /\ stack = <<>>
    /\ call.op = "run"
    /\ Len(call.args) = 2
    /\ ret = RetUndefined
    /\ modules # call.pre.modules

C13_WitnessError ==
    /\ stack = <<>>
    /\ call.op = "run"
    /\ ret.k = "err"
    /\ loading # call.pre.loading

\* C14: a needs(name) with one name that is not registered throws the
\* not-found error to its caller and leaves the modules, their caches and
\* Package.loading as they were before the call.
C14_UnknownNameLeavesState ==
    (/\ NeedsOver
     /\ OneToken(call.args)
     /\ CallName \notin DOMAIN call.pre.modules)
    => /\ ret.k = "err"
       /\ ret.e.kind = "NotFound"
       /\ ret.e.names = <<CallName>>
       /\ modules = call.pre.modules
       /\ loading = call.pre.loading
       /\ invoked = call.pre.invoked

\* C14 witness: such a needs has thrown in a state with a cached module and
\* a name left on Package.loading by an earlier call.
C14_Witness ==
    /\ NeedsOver
    /\ OneToken(call.args)
    /\ CallName \notin DOMAIN call.pre.modules
    /\ ret.k = "err"
    /\ loading # <<>>
    /\ \E n \in DOMAIN modules : modules[n].isCached

\* The registered names that differ from the requested name in letter case
\* only.
CaseMatches(mods, requested) ==
    {key \in DOMAIN mods : key # requested /\ toLowerCase(key) = toLowerCase(requested)}

\* C15 (as claimed): when a lookup throws the not-found error and exactly
\* one registered name differs from the requested name in letter case only,
\* the message suggests that registered name; when no registered name
\* matches, the message suggests nothing.
C15_SuggestsRegisteredName ==
    (ev.t = "throw" /\ ev.e.kind = "NotFound")
    => LET matches == CaseMatches(modules, ev.e.names[1])
       IN  /\ Cardinality(matches) = 1 => (ev.e.hint.some /\ ev.e.hint.name \in matches)
           /\ matches = {} => ~ev.e.hint.some

\* The definition of module n has thrown when n was resolved, and n has not
\* been resolved since.
DefinitionRaised(pre, n) ==
    /\ n \in DOMAIN pre.raised
    /\ pre.raised[n].kind = "Thrown"
    /\ pre.raised[n].names = <<n>>

\* C16 (as claimed): a needs(name) made after the definition of the module
\* has thrown in its first resolution calls the definition again.
C16_RetryInvokesAgain ==
    (/\ NeedsOver
     /\ OneToken(call.args)
     /\ DefinitionRaised(call.pre, CallName))
    => Len(invoked[CallName]) = Len(call.pre.invoked[CallName]) + 1

\* C17: a failure is never stored.  A module whose load an error has left
\* (its definition threw, or resolving one of its dependencies threw) is not
\* cached and holds no value; and the error of the last step has reached the
\* caller: the outermost caller when no call is in progress any more, the
\* try block of a definition otherwise.
C17_FailureNotMemoized ==
    /\ \A n \in DOMAIN raised :
          /\ n \in DOMAIN modules
          /\ ~modules[n].isCached
          /\ modules[n].cache = "null"
    /\ ev.t = "throw"
       => IF stack = <<>> THEN ret = RetErr(ev.e)
          ELSE Top.f = "load" /\ Top.pc = "body"

\* C17 witness: the definition of one module has thrown while it was
\* resolved as a dependency of another, and the error has reached the
\* outermost caller.
C17_Witness ==
    /\ stack = <<>>
    /\ ev.t = "throw"
    /\ ret = RetErr(ev.e)
    /\ ev.e.kind = "Thrown"
    /\ \E n, d \in DOMAIN raised :
          /\ n # d
          /\ raised[d] = ev.e
          /\ raised[n] = ev.e
          /\ ev.e.names = <<d>>
          /\ d \in Range(Params(modules, n))

\* The case of C18: needs(a) has thrown the not-found error for a declared
\* dependency b of a, b has been registered since, and now every module
\* reachable from a is registered, no cycle is among them, and their
\* definitions make no calls and return.
C18_Case ==
    /\ NeedsOver
    /\ OneToken(call.args)
    /\ CallName \in DOMAIN call.pre.raised
    /\ call.pre.raised[CallName].kind = "NotFound"
    /\ call.pre.raised[CallName].names[1] \in Range(Params(call.pre.modules, CallName))
    /\ call.pre.raised[CallName].names[1] \in DOMAIN call.pre.modules
    /\ Reachable(call.pre.modules, CallName) \subseteq DOMAIN call.pre.modules
    /\ \A u \in Reachable(call.pre.modules, CallName) :
          ~OnCycle(call.pre.modules, u) /\ Plain(call.pre.modules[u].definition)

\* C18 (as claimed): in that case the further needs(a) succeeds and returns
\* the value of a.
C18_RetryAfterDefineSucceeds ==
    C18_Case => (/\ ret.k = "raw"
                 /\ modules[CallName].isCached
                 /\ ret.v = modules[CallName].cache)

\* C19: the options of a module are the default options of the package at
\* the time of its define, overridden key by key by the options passed to
\* that define; and no step, a config least of all, changes the options of
\* a module that is registered.
C19_OptionsFixedAtDefine ==
    [][/\ (/\ IsDefineStep
           /\ DefineArgs.name.t = "str"
           /\ DefineArgs.name.s \in (DOMAIN modules') \ (DOMAIN modules))
          => LET o == modules'[DefineArgs.name.s].options
             IN  /\ DOMAIN o = (DOMAIN defaults) \cup (DOMAIN DefineArgs.opts)
                 /\ \A k \in DOMAIN o :
                       o[k] = IF k \in DOMAIN DefineArgs.opts
                              THEN DefineArgs.opts[k] ELSE defaults[k]
       /\ \A n \in DOMAIN modules :
             n \in DOMAIN modules' /\ modules'[n].options = modules[n].options
      ]_vars

\* C19 witness: a config has changed the defaults after one module was
\* defined and another module was defined under other defaults with options
\* of its own; the two hold the options of their own define.
C19_Witness ==
    /\ stack = <<>>
    /\ call.op = "config"
    /\ defaults # call.pre.defaults
    /\ defaults.loadNow
    /\ \E n, m \in DOMAIN modules :
          /\ modules[n].options.logAfterLoad
          /\ modules[n].options.logOnLoad
          /\ ~modules[n].options.loadNow
          /\ ~modules[m].options.logAfterLoad
          /\ ~modules[m].options.loadNow

\* C20 (as claimed): when the defaults have loadNow set by a config, an
\* outermost define without options of a module whose dependencies are
\* registered has, when it returns, called the definition of the module.
C20_ConfigLoadNowResolves ==
    (/\ stack = <<>>
     /\ call.op = "define"
     /\ call.opts = NoOptions
     /\ call.pre.defaults.loadNow
     /\ call.name.t = "str"
     /\ call.name.s \in (DOMAIN modules) \ (DOMAIN call.pre.modules)
     /\ Closure(modules, {call.name.s}, {}) \subseteq DOMAIN modules
     /\ ret.k # "err")
    => Len(invoked[call.name.s]) = 1

\* The names a needs frame resolves: those done and those to do.
FrameNames(fr) == DictKeys(fr.results) \o fr.todo

\* The call in progress of the definition in frame fr is this.needs or
\* this.run with the one name "./x", for some x.
CallsRelative(fr) ==
    /\ fr.f = "load"
    /\ fr.pc = "body"
    /\ fr.ops # <<>>
    /\ Head(fr.ops).op \in {"needs", "run"}
    /\ OneToken(Head(fr.ops).args)
    /\ Len(Head(fr.ops).args[1].s) > 2
    /\ SubSeq(Head(fr.ops).args[1].s, 1, 2) = <<".", "/">>

\* C21 (as claimed): a this.needs('./x') or this.run('./x') made by the
\* definition of module U resolves the module named U/x.
C21_DotSlashIsRelative ==
    \A i \in 2..Len(stack) :
        (stack[i].f = "needs" /\ CallsRelative(stack[i - 1]))
        => FrameNames(stack[i]) =
              <<stack[i - 1].name \o Tail(Head(stack[i - 1].ops).args[1].s)>>

\* The tokens of a string: its maximal runs of characters that are not
\* whitespace, in order.
RECURSIVE TokensRec(_, _, _)
TokensRec(str, acc, cur) ==
    IF str = <<>> THEN (IF cur = <<>> THEN acc ELSE Append(acc, cur))
    ELSE IF Head(str) \in Whitespace
         THEN TokensRec(Tail(str), IF cur = <<>> THEN acc ELSE Append(acc, cur), <<>>)
         ELSE TokensRec(Tail(str), acc, Append(cur, Head(str)))

Tokens(str) == TokensRec(str, <<>>, <<>>)

\* The string uses the namespace shorthand: its first token ends with ':'
\* and it has a further token.
Shorthand(str) ==
    /\ Len(Tokens(str)) > 1
    /\ Tokens(str)[1][Len(Tokens(str)[1])] = ":"

\* The names the shorthand stands for: the further tokens, each after the
\* first token with its ':' replaced by '/'.
Prefixed(str) ==
    [i \in 1..(Len(Tokens(str)) - 1) |->
        Front(Tokens(str)[1]) \o <<"/">> \o Tokens(str)[i + 1]]

\* C22 (as claimed): for a string that uses the namespace shorthand
\* parseNeeds returns exactly the prefixed further tokens, in order; and
\* for two strings passed together the prefix of the first does not reach
\* the names of the second.
C22_NamespaceShorthand ==
    /\ (/\ parsed.done
        /\ Len(arguments) = 1
        /\ arguments[1].t = "str"
        /\ Shorthand(arguments[1].s))
       => (parsed.ok /\ parsed.names = Prefixed(arguments[1].s))
    /\ (/\ parsed.done
        /\ Len(arguments) = 2
        /\ arguments[1].t = "str"
        /\ arguments[2].t = "str"
        /\ Shorthand(arguments[1].s)
        /\ ~Shorthand(arguments[2].s)
        /\ parsed.ok)
       => parsed.names = Prefixed(arguments[1].s) \o Tokens(arguments[2].s)

\* The strings of a value, left to right, at any depth.
RECURSIVE Leaves(_)
Leaves(v) ==
    IF v.t = "str" THEN <<v>>
    ELSE IF v.a = <<>> THEN <<>>
    ELSE Leaves(Head(v.a)) \o Leaves(Arr(Tail(v.a)))

\* The lists next to each other, left to right.
RECURSIVE Joined(_)
Joined(lists) == IF lists = <<>> THEN <<>> ELSE Head(lists) \o Joined(Tail(lists))

\* C23: parseNeeds flattens in order.  What it returns for an array is what
\* it returns for the strings in the array, at any depth, one after the
\* other from left to right with duplicates kept (and it throws exactly
\* when it throws for one of them); and called with two or more arguments
\* it returns what it returns for the array of these arguments.
C23_FlattensInOrder ==
    parsed.done
    => LET v == IF Len(arguments) > 1 THEN Arr(arguments) ELSE arguments[1]
           parts == [i \in 1..Len(Leaves(v)) |-> parseNeeds(<<Leaves(v)[i]>>)]
       IN  /\ parsed.ok <=> \A i \in 1..Len(parts) : parts[i].ok
           /\ parsed.ok => parsed.names = Joined([i \in 1..Len(parts) |-> parts[i].names])
           /\ Len(arguments) > 1
              => /\ parsed.ok = parseNeeds(<<Arr(arguments)>>).ok
                 /\ parsed.names = parseNeeds(<<Arr(arguments)>>).names

\* C23 witness: an array with an array in it has been parsed to four names,
\* the first and the last the same; and (second witness) three arguments
\* have been parsed to five names.
C23_Witness ==
    /\ parsed.done
    /\ parsed.ok
    /\ Len(arguments) = 1
    /\ arguments[1].t = "arr"
    /\ \E i \in 1..Len(arguments[1].a) : arguments[1].a[i].t = "arr"
    /\ Len(parsed.names) = 4
    /\ parsed.names[1] = parsed.names[4]

C23_WitnessArguments ==
    /\ parsed.done
    /\ parsed.ok
    /\ Len(arguments) = 3
    /\ Len(parsed.names) = 5

\* C24 (as claimed): parseNeeds throws for no string and for no nested
\* array of strings.
C24_ParseNeverThrows ==
    parsed.done => parsed.ok

\* undefined and null
Nullish(v) == v \in {"undefined", "null"}

\* The load of module n is in progress.
InProgress(n) == \E i \in 1..Len(stack) : stack[i].f = "load" /\ stack[i].name = n

\* C25 (as claimed): a module whose definition returns undefined or null is
\* cached like any other.  Once its definition has been called and has
\* returned, the module is cached with that value; and a needs(name) made
\* when it is cached returns that value and calls no definition.
C25_NullishIsCached ==
    /\ \A n \in DOMAIN modules :
          (/\ Len(invoked[n]) = 1
           /\ ~InProgress(n)
           /\ n \notin DOMAIN raised
           /\ modules[n].definition.out.k = "return"
           /\ Nullish(modules[n].definition.out.v))
          => (modules[n].isCached /\ modules[n].cache = modules[n].definition.out.v)
    /\ (/\ NeedsOver
        /\ OneToken(call.args)
        /\ CallName \in DOMAIN call.pre.modules
        /\ call.pre.modules[CallName].isCached
        /\ Nullish(call.pre.modules[CallName].cache))
       => (/\ ret = RetRaw(call.pre.modules[CallName].cache)
           /\ invoked = call.pre.invoked)

\* C26 (as claimed): whenever no call is in progress, Package.loading is
\* empty, whether the calls made so far returned or threw.
C26_LoadingEmptyAtRest ==
    stack = <<>> => loading = <<>>

\* The modules whose resolution is in progress, outermost first.
RECURSIVE Chain(_)
Chain(stk) ==
    IF stk = <<>> THEN <<>>
    ELSE (IF Head(stk).f = "load" THEN <<Head(stk).name>> ELSE <<>>) \o Chain(Tail(stk))

\* C27 (as claimed): at every instant Package.loading is the chain of the
\* modules whose resolution is in progress, outermost first.
C27_LoadingIsChain ==
    loading = Chain(stack)

\* C28 (as claimed): a load of a registered name throws the circular
\* dependency error exactly when the resolution of that name is in progress
\* at the moment the name is pushed.
C28_CircularIffInProgress ==
    [][(/\ stack # <<>>
        /\ Top.f = "needs"
        /\ Top.todo # <<>>
        /\ Head(Top.todo) \in DOMAIN modules)
       => ((ev'.t = "throw" /\ ev'.e.kind = "Circular") <=> InProgress(Head(Top.todo)))
      ]_vars

\* C29: every call ends, by returning or by throwing: a call in progress
\* leads to no call in progress; and the nesting of a call is bounded: the
\* modules being resolved are never more than the registered ones.
C29_CallsTerminate ==
    /\ [](Len(Chain(stack)) <= Cardinality(DOMAIN modules))
    /\ (stack # <<>>) ~> (stack = <<>>)

\* C29 witness: with definitions that make no calls of their own, a define
\* that resolved a module and its dependency has returned; and (second
\* witness) a needs that went three modules deep has thrown.
C29_Witness ==
    /\ stack = <<>>
    /\ call.op = "define"
    /\ ret = RetUndefined
    /\ Len(order) = 2
    /\ \A n \in DOMAIN modules : modules[n].definition.body = <<>>

C29_WitnessThrown ==
    /\ stack = <<>>
    /\ call.op = "needs"
    /\ ret.k = "err"
    /\ Len(loading) = Len(call.pre.loading) + 4
    /\ \A n \in DOMAIN modules : modules[n].definition.body = <<>>

\* The modules whose definitions a depth-first, left-to-right walk from the
\* names in todo calls, in the order of the calls: a name that is not
\* registered, cached, already called or being walked is passed over; the
\* declared dependencies of a module come before the module.
RECURSIVE Walk(_, _, _, _)
Walk(mods, todo, done, path) ==
    IF todo = <<>> THEN done
    ELSE LET n == Head(todo)
         IN  IF \/ n \notin DOMAIN mods
                \/ mods[n].isCached
                \/ n \in Range(done)
                \/ n \in path
             THEN Walk(mods, Tail(todo), done, path)
             ELSE Walk(mods, Tail(todo),
                       Append(Walk(mods, Params(mods, n), done, path \cup {n}), n),
                       path)

IsPrefix(a, b) == Len(a) <= Len(b) /\ SubSeq(b, 1, Len(a)) = a

\* The case of C30: an outermost needs or run is over, its arguments were
\* parsed, and the definitions registered when it was made call nothing
\* themselves.
C30_Case ==
    /\ stack = <<>>
    /\ call.op \in {"needs", "run"}
    /\ ret.k # "pending"
    /\ parseNeeds(call.args).ok
    /\ \A n \in DOMAIN call.pre.modules : call.pre.modules[n].definition.body = <<>>

C30_WitnessThrown ==
    /\ C30_Case
    /\ ret.k = "err"
    /\ ret.e.kind = "Thrown"
    /\ Len(parseNeeds(call.args).names) = 2
    /\ parseNeeds(call.args).names[2] \in DOMAIN modules
    /\ ~modules[parseNeeds(call.args).names[2]].isCached
    /\ invoked[parseNeeds(call.args).names[2]] = <<>>
    /\ Len(order) = 1


\* How often val occurs in list.
Occurrences(list, val) == Cardinality({i \in 1..Len(list) : list[i] = val})

\* The values that occur more than once in list, each once, in the order of
\* their first occurrences.
RECURSIVE RepeatedFrom(_, _)
RepeatedFrom(list, i) ==
    IF i > Len(list) THEN <<>>
    ELSE (IF /\ Occurrences(list, list[i]) > 1
             /\ \A j \in 1..(i - 1) : list[j] # list[i]
          THEN <<list[i]>> ELSE <<>>) \o RepeatedFrom(list, i + 1)

Repeated(list) == RepeatedFrom(list, 1)

\* C31: getDuplicates(list) returns each value that occurs more than once in
\* list exactly once, ordered by first occurrence ([1,2,3,1,1,2] gives
\* [1,2]).  (Package.checkCircularDeps reports getDuplicates(this.loading).)
C31_EachDuplicateOnce == duplicates.done => duplicates.v = Repeated(items)

\* The case of test.js: getDuplicates([1, 2, 3, 1, 1, 2])
C31_TestCase ==
    (duplicates.done /\ items = <<1, 2, 3, 1, 1, 2>>) => duplicates.v = <<1, 2>>

\* A CircularDependencyError reports getDuplicates of the loading stack at
\* the time of the throw.
C31_CircularReportsDuplicates ==
    (ev.t = "throw" /\ ev.e.kind = "Circular") => ev.e.names = Repeated(loading)


\* How often log has written str.
Written(str) == Cardinality({i \in 1..Len(console) : console[i] = str})

\* A unit with logOnLoad and logAfterLoad set.
Logs(mods, n) ==
    /\ n \in DOMAIN mods
    /\ truthy(mods[n].options, "logOnLoad")
    /\ truthy(mods[n].options, "logAfterLoad")

\* The step wrote 'Loading [n].': the load of n, which is not cached, has
\* just begun, and none of its parameter names is resolved yet.
WroteLoading(n) ==
    /\ console' = Append(console, LoadingMsg(n))
    /\ n \in DOMAIN modules
    /\ ~isCached(modules[n])
    /\ ev'.t = "enter"
    /\ ev'.name = n
    /\ Len(stack') > 1
    /\ stack'[Len(stack') - 1] = LoadFrame(n)
    /\ stack'[Len(stack')].f = "needs"
    /\ stack'[Len(stack')].results = <<>>
    /\ stack'[Len(stack')].todo = getFnParams(modules[n].definition)
    /\ invoked'[n] = <<>>

\* The step wrote 'Finished loading [n].': the definition of n has just
\* returned and its value is cached.
WroteFinished(n) ==
    /\ console' = Append(console, FinishedMsg(n))
    /\ n \in DOMAIN modules
    /\ stack # <<>>
    /\ Top.f = "load" /\ Top.name = n /\ Top.pc = "body" /\ Top.ops = <<>>
    /\ Top.out.k = "return"
    /\ ev'.t = "loaded"
    /\ ev'.name = n
    /\ isCached(modules'[n])
    /\ getCache(modules'[n]) = Top.out.v

\* C32: for a unit with logOnLoad and logAfterLoad set, 'Loading' is written
\* when its load begins, before any of its dependencies is resolved, and
\* 'Finished loading' when its definition has returned; nothing else writes,
\* in particular not the resolution of a cached unit; and each of the two
\* messages is written at most once per unit, 'Loading' first.
C32_LogsOncePerUnit ==
    /\ [](\A n \in DOMAIN modules :
            /\ Written(LoadingMsg(n)) <= 1
            /\ Written(FinishedMsg(n)) <= 1
            /\ (Logs(modules, n) /\ Written(FinishedMsg(n)) = 1)
                   => \E i, j \in 1..Len(console) :
                          /\ i < j
                          /\ console[i] = LoadingMsg(n)
                          /\ console[j] = FinishedMsg(n))
    /\ [][/\ \/ console' = console
             \/ \E n \in DOMAIN modules : WroteLoading(n) \/ WroteFinished(n)
          /\ \A n \in DOMAIN modules :
                Logs(modules, n) =>
                    /\ (ev'.t = "enter" /\ ev'.name = n) => WroteLoading(n)
                    /\ (ev'.t = "loaded" /\ ev'.name = n) => WroteFinished(n)
          /\ ev'.t = "hit" => console' = console]_vars

\* a and b have logged both messages, and a is resolved again from its cache.
C32_Witness ==
    /\ app = AppLog
    /\ console = <<LoadingMsg(NA), LoadingMsg(NB), FinishedMsg(NB), FinishedMsg(NA)>>
    /\ ev.t = "hit"
    /\ ev.name = NA

\* c has logged 'Loading' and thrown; a further needs('c') has ended.
C32_WitnessThrown ==
    /\ app = AppLog
    /\ Written(LoadingMsg(NC)) = 1
    /\ Written(FinishedMsg(NC)) = 0
    /\ NC \in DOMAIN raised
    /\ call.op = "needs"
    /\ call.args = <<Str(NC)>>
    /\ NC \in DOMAIN call.pre.raised
    /\ stack = <<>>


\* C33: a cached module's declared dependencies (the parameter names of its
\* definition) are all registered and cached, and a cached module keeps its
\* flag and its value in every step.
C33_CachedIsClosedAndStable ==
    /\ [](\A n \in DOMAIN modules :
            isCached(modules[n]) =>
                \A i \in 1..Len(getFnParams(modules[n].definition)) :
                    LET d == getFnParams(modules[n].definition)[i]
                    IN  exists(modules, d) /\ isCached(modules[d]))
    /\ [][\A n \in DOMAIN modules :
            isCached(modules[n]) =>
                /\ n \in DOMAIN modules'
                /\ isCached(modules'[n])
                /\ getCache(modules'[n]) = getCache(modules[n])]_vars

\* The diamond is cached, a with its two dependencies, and a is resolved
\* once more.
C33_Witness ==
    /\ app = AppDiamond
    /\ \A n \in {NA, NB, NC, ND} : n \in DOMAIN modules /\ isCached(modules[n])
    /\ getFnParams(modules[NA].definition) = <<NB, NC>>
    /\ ev.t = "hit"
    /\ ev.name = NA


\* The errors of define's own checks.
ValidationErrors == {"InvalidName", "EmptyName", "Duplicate", "InvalidDefinition"}

\* An outermost define of a new name has passed its checks and raised the
\* error of the resolution it started.
C34_Case ==
    /\ stack = <<>>
    /\ call.op = "define"
    /\ ret.k = "err"
    /\ ret.e.kind \notin ValidationErrors

\* The define frames an error thrown on stack stk leaves.
RECURSIVE DefinesLeft(_)
DefinesLeft(stk) ==
    IF stk = <<>> THEN {}
    ELSE LET fr == stk[Len(stk)]
         IN  IF Catches(fr) THEN {}
             ELSE (IF fr.f = "define" THEN {fr.name} ELSE {}) \cup DefinesLeft(Front(stk))

\* C34: a define of "main" or with loadNow that passes its checks and raises
\* because the resolution fails leaves the module registered: exists(name)
\* is true afterwards and stays true, and a further define of the name
\* throws the error of a registered name and changes nothing.
C34_FailedDefineStaysRegistered ==
    /\ [](C34_Case =>
            /\ loadsNow(call.name.s, call.opts)
            /\ ~exists(call.pre.modules, call.name.s)
            /\ exists(modules, call.name.s)
            /\ \A fn \in {OtherFn, FnUndefined}, opts \in {NoOptions, LoadNow} :
                  LET after == Finish(define(Called, call.name, fn, opts))
                  IN  /\ after.ret = RetErr(Err("Duplicate", <<call.name.s>>))
                      /\ after.modules = modules
                      /\ after.loading = loading)
    /\ [][/\ \A n \in DOMAIN modules : n \in DOMAIN modules'
          /\ ev'.t = "throw" =>
                \A n \in DefinesLeft(stack) : exists(modules', n)]_vars

\* define('a', function(a){}, {loadNow: true}) has thrown the circular
\* dependency error.
C34_Witness ==
    /\ C34_Case
    /\ call.name = Str(NA)
    /\ call.opts = LoadNow
    /\ ret.e.kind = "Circular"
    /\ exists(modules, NA)

\* define('main', ...) has thrown the error of a dependency that is not
\* registered or whose definition throws.
C34_WitnessMain ==
    /\ C34_Case
    /\ call.name = Str(Main)
    /\ ret.e.kind \in {"NotFound", "Thrown"}

\* A further define of a name whose define had raised has thrown.
C34_WitnessFurther ==
    /\ stack = <<>>
    /\ call.op = "define"
    /\ call.name.t = "str"
    /\ call.name.s \in DOMAIN call.pre.raised
    /\ ret = RetErr(Err("Duplicate", <<call.name.s>>))

=============================================================================
